---- MODULE Spec2Model ----
(***************************************************************************)
(* Model of tools/github/import_anthropic_skills.py (the importer) and     *)
(* tools/github/list_issues.py (the issue lister).                         *)
(*                                                                         *)
(* The programs are single-threaded.  A behaviour is one run of one unit,  *)
(* selected by prog:                                                        *)
(*   "http"   one call of _http_json                      (SpecHttp)       *)
(*   "iter"   one call of the importer's _iter_issues     (SpecPage)       *)
(*   "list"   one call of the lister's _iter_issues       (SpecPage)       *)
(*   "pick"   the file choice of _pick_skill_markdown     (SpecPick)       *)
(*   "import" one run of the importer's main              (Spec)           *)
(* Every HTTP exchange is a step: the environment answers each request     *)
(* with a response drawn from a small set.                                 *)
(***************************************************************************)
EXTENDS Integers, Sequences, FiniteSets, TLC

VARIABLES
    prog,       \* which unit this behaviour runs
    pc,         \* position of the running program
    \* ---- _http_json ----
    caller,     \* call site waiting for _http_json ("none" when no call is active)
    retries,    \* the retries parameter of the active call
    attempt,    \* loop variable of `for attempt in range(retries)`
    slept,      \* sequence of the time.sleep() arguments of the active call, in seconds
    hlog,       \* statuses answered to the requests of the active call, in order
    lastResp,   \* the answer to the latest request of the active call
    hret,       \* outcome of the active call: pending, returned or raised
    \* ---- _iter_issues (both programs) ----
    pages,      \* the server's issue listing: the chain of response pages
    url,        \* the local `url` of _iter_issues (a token sequence, <<>> is "")
    out,        \* the items collected (importer) or yielded (lister) so far
    reqlog,     \* the URLs requested by _iter_issues, in order
    \* ---- _pick_skill_markdown ----
    listing,    \* the directory listing (`data`) the picker chooses from
    picked,     \* the picker's choice: the file name returned, <<>> for ""
    \* ---- _build_operit_issue_body, _extract_skill_metadata_repo_url ----
    build_args, \* description, repository_url and version passed to the builder
    issue_body, \* the text the builder returned, as a token sequence
    extracted,  \* what _extract_skill_metadata_repo_url returned for issue_body
    \* ---- main of the importer ----
    cfg,        \* command line and environment (args, the credentials found)
    tree,       \* the source repository at the ref: its git tree (paths of blobs)
    discovered, \* `skills` as returned by discovery
    skills,     \* `skills` as iterated by the main loop (after --only-skill, --limit)
    existing,   \* existing_repo_urls
    idx,        \* 1-based index of the item the main loop is at; 0 before the loop
    created,    \* counter
    skipped,    \* counter
    failed,     \* counter
    exitCode,   \* the value main returned; -1 while it has not returned
    dupsReported, \* the names printed after "Duplicates: "
    warned,     \* the truncated-results warning was printed
    cur,        \* what has been done for the item the loop is at
    lastPrint   \* the latest per-item line printed

httpVars == <<caller, retries, attempt, slept, hlog, lastResp, hret>>
pageVars == <<pages, url, out, reqlog>>
pickVars == <<listing, picked>>
bodyVars == <<build_args, issue_body, extracted>>
mainVars == <<cfg, tree, discovered, skills, existing, idx, created, skipped, failed,
              exitCode, dupsReported, warned, cur, lastPrint>>
vars == <<prog, pc, caller, retries, attempt, slept, hlog, lastResp, hret,
          pages, url, out, reqlog, listing, picked, build_args, issue_body, extracted,
          cfg, tree, discovered, skills, existing, idx, created, skipped, failed,
          exitCode, dupsReported, warned, cur, lastPrint>>

----------------------------------------------------------------------------
(* Bounds of the model *)
MaxRetries == 5
MaxPages == 3
MaxPageItems == 2
MaxFiles == 3
MaxBlobs == 3
MaxDupNames == 51
MaxText == 3

(* Program constants *)
DefaultRetries == 5
BackoffBase == 1
DupReportCap == 50

----------------------------------------------------------------------------
(* Response bodies.  A body is its decoded JSON value (for a 2xx answer)   *)
(* and the set of substrings of its text that the code looks for.          *)
JNull == [type |-> "null", items |-> <<>>]
JList(xs) == [type |-> "list", items |-> xs]
JObj(fields) == [type |-> "dict", items |-> fields]
JDict == JObj(<<>>)
Null == JNull
Mark422 == "422"
MarkPAT == "Resource not accessible by personal access token"

Body(kind, val, marks) == [kind |-> kind, val |-> val, marks |-> marks]
EmptyBody == Body("empty", Null, {})
GarbageBody == Body("garbage", Null, {})

StatusNetwork == 0      \* no HTTP answer: URLError, ssl.SSLError, OSError
StatusOK == 200

ReasonOf(code) ==
    CASE code = 403 -> "Forbidden"
      [] code = 404 -> "Not Found"
      [] code = 422 -> "Unprocessable Entity"
      [] code = 429 -> "Too Many Requests"
      [] code = 500 -> "Internal Server Error"
      [] code = 502 -> "Bad Gateway"
      [] code = 503 -> "Service Unavailable"
      [] code = 504 -> "Gateway Timeout"
      [] OTHER -> ""

Response(status, body, link) ==
    [status |-> status, reason |-> ReasonOf(status), body |-> body, link |-> link]

NoResponse == Response(StatusNetwork, EmptyBody, <<>>)

RECURSIVE Pow2(_)
Pow2(n) == IF n = 0 THEN 1 ELSE 2 * Pow2(n - 1)

(* e.code in (403, 429, 500, 502, 503, 504) *)
RetryableWith404 == {403, 404, 429, 500, 502, 503, 504}
Retryable == {403, 429, 500, 502, 503, 504}

(* backoff_s * (2**attempt) *)
BackoffNoDoubling(a) == BackoffBase
Backoff(a) == BackoffBase * Pow2(a)

(* attempt + 1 < retries *)
MayRetryOffByOne(a, r) == a < r
MayRetry(a, r) == a + 1 < r

(* Outcomes of _http_json *)
Pending == [kind |-> "pending", data |-> Null, link |-> <<>>, exc |-> "",
            code |-> 0, reason |-> "", body |-> EmptyBody, hint |-> FALSE]
Returned(data, link) == [Pending EXCEPT !.kind = "ok", !.data = data, !.link = link]
(* RuntimeError(f"GitHub API error: HTTP {e.code} {e.reason}\n{body}") *)
RaisedHttp(code, reason, body, hint) ==
    [Pending EXCEPT !.kind = "error", !.exc = "RuntimeError:GitHub API error",
                    !.code = code, !.reason = reason, !.body = body, !.hint = hint]
(* RuntimeError("Request failed (network/SSL). ...") *)
RaisedNetwork == [Pending EXCEPT !.kind = "error", !.exc = "RuntimeError:Request failed"]
(* json.loads raises json.JSONDecodeError, which no except clause of _http_json catches *)
RaisedDecode == [Pending EXCEPT !.kind = "error", !.exc = "JSONDecodeError"]

(* The call sequence at a call site: the locals before the for loop. *)
HttpCall(site, r) ==
    /\ caller' = site
    /\ retries' = r
    /\ attempt' = 0
    /\ slept' = <<>>
    /\ hlog' = <<>>
    /\ lastResp' = NoResponse
    /\ hret' = Pending

(* The call is over and its result taken up: its locals are gone. *)
HttpOver ==
    /\ caller' = "none"
    /\ retries' = DefaultRetries
    /\ attempt' = 0
    /\ slept' = <<>>
    /\ hlog' = <<>>
    /\ lastResp' = NoResponse
    /\ hret' = Pending

(* One iteration of `for attempt in range(retries)`: the request, its answer *)
(* resp, and either the return, the raise, or the sleep before `continue`.  *)
HttpAttempt(resp) ==
    /\ caller # "none"
    /\ hret.kind = "pending"
    /\ attempt < retries
    /\ hlog' = Append(hlog, resp.status)
    /\ lastResp' = resp
    /\ IF resp.status = StatusOK
       THEN /\ hret' = CASE resp.body.kind = "empty" -> Returned(Null, resp.link)
                         [] resp.body.kind = "garbage" -> RaisedDecode
                         [] OTHER -> Returned(resp.body.val, resp.link)
            /\ UNCHANGED <<attempt, slept>>
       ELSE IF resp.status = StatusNetwork
       THEN IF MayRetry(attempt, retries)
            THEN /\ slept' = Append(slept, Backoff(attempt))
                 /\ attempt' = attempt + 1
                 /\ UNCHANGED hret
            ELSE /\ hret' = RaisedNetwork
                 /\ UNCHANGED <<attempt, slept>>
       ELSE IF resp.status \in Retryable /\ MayRetry(attempt, retries)
            THEN /\ slept' = Append(slept, Backoff(attempt))
                 /\ attempt' = attempt + 1
                 /\ UNCHANGED hret
            ELSE /\ hret' = RaisedHttp(resp.status, resp.reason, resp.body,
                                       resp.status = 403 /\ MarkPAT \in resp.body.marks)
                 /\ UNCHANGED <<attempt, slept>>
    /\ UNCHANGED <<caller, retries>>

----------------------------------------------------------------------------
(* The state of main before it starts (and in the runs of a single unit).  *)
NoUrl == [base |-> "", path |-> <<>>]
FreshItem == [fetched |-> FALSE, downloaded |-> FALSE, summarized |-> FALSE,
              posted |-> FALSE, createCalls |-> 0, firstCreate |-> "", md |-> <<>>,
              made |-> 0]
NoPrint == [kind |-> "", name |-> <<>>, text |-> ""]
NoCfg == [ai_ok |-> TRUE, token_ok |-> TRUE, target_ok |-> TRUE, source_ok |-> TRUE,
          source_root |-> <<115, 107, 105, 108, 108, 115>>, verbose |-> FALSE,
          recursive |-> FALSE,
          skip_existing |-> FALSE, allow_duplicate_ids |-> FALSE, dry_run |-> FALSE,
          limit |-> 0, only_skill |-> <<>>]
BodyIdle ==
    /\ build_args = [description |-> <<>>, repository_url |-> <<>>, version |-> <<>>]
    /\ issue_body = <<>>
    /\ extracted = <<>>

MainIdle ==
    /\ cfg = NoCfg
    /\ tree = <<>>
    /\ discovered = <<>>
    /\ skills = <<>>
    /\ existing = {}
    /\ idx = 0
    /\ created = 0
    /\ skipped = 0
    /\ failed = 0
    /\ exitCode = -1
    /\ dupsReported = <<>>
    /\ warned = FALSE
    /\ cur = FreshItem
    /\ lastPrint = NoPrint

----------------------------------------------------------------------------
(* SpecHttp: one call of _http_json against an arbitrary server.           *)
HttpStatuses == {StatusNetwork, StatusOK, 403, 404, 422, 429, 500, 503}
HttpBodies == {EmptyBody, GarbageBody, Body("json", JDict, {}),
               Body("json", JDict, {Mark422}), Body("json", JDict, {MarkPAT})}
HttpResponses ==
    {Response(s, b, <<>>) : s \in HttpStatuses \ {StatusNetwork}, b \in HttpBodies}
        \cup {Response(StatusNetwork, EmptyBody, <<>>)}

InitHttp ==
    /\ prog = "http"
    /\ pc = "http"
    /\ caller = "http"
    /\ retries \in 1..MaxRetries
    /\ attempt = 0
    /\ slept = <<>>
    /\ hlog = <<>>
    /\ lastResp = NoResponse
    /\ hret = Pending
    /\ pages = <<>>
    /\ url = <<>>
    /\ out = <<>>
    /\ reqlog = <<>>
    /\ listing = <<>>
    /\ picked = <<>>
    /\ BodyIdle
    /\ MainIdle

HttpStep ==
    /\ prog = "http"
    /\ \E resp \in HttpResponses : HttpAttempt(resp)
    /\ UNCHANGED <<prog, pc, pageVars, pickVars, bodyVars, mainVars>>

NextHttp == HttpStep

SpecHttp == InitHttp /\ [][NextHttp]_vars
(* The for loop of _http_json is ordinary sequential code: it keeps running. *)
SpecHttpFair == SpecHttp /\ WF_vars(HttpStep)

----------------------------------------------------------------------------
(* Claims about _http_json *)

(* The statuses the specification calls transient: too-many-requests and *)
(* server errors.                                                         *)
TransientStatuses == {429, 500, 502, 503, 504}
(* Statuses the specification calls non-retryable. *)
PermanentStatuses == {404, 422}

(* C2: when the first k answers (k < retries) are transient statuses and   *)
(* answer k+1 is a 200 with a JSON (or empty) body, the call returns the   *)
(* parsed body of answer k+1, having sent exactly k+1 requests and slept   *)
(* exactly k times, the i-th sleep (i = 0..k-1) lasting base * 2^i, so     *)
(* each delay is double the previous one and the delays strictly increase. *)
C2_RetryThenSuccess ==
    LET n == Len(hlog) IN
    (/\ prog = "http"
     /\ n >= 1
     /\ hlog[n] = StatusOK
     /\ \A i \in 1..(n - 1) : hlog[i] \in TransientStatuses
     /\ lastResp.body.kind \in {"json", "empty"})
    => /\ hret.kind = "ok"
       /\ hret.data = lastResp.body.val
       /\ Len(slept) = n - 1
       /\ \A i \in 1..(n - 1) : slept[i] = BackoffBase * Pow2(i - 1)
       /\ \A i \in 2..(n - 1) : slept[i] = 2 * slept[i - 1] /\ slept[i] > slept[i - 1]

C2_Witness ==
    /\ prog = "http"
    /\ hlog = <<503, 503, 503, StatusOK>>
    /\ hret.kind = "ok"
    /\ hret.data = JDict
    /\ slept = <<1, 2, 4>>

(* C3: an HTTP error status outside the retryable set (404, 422) on any    *)
(* attempt ends the call at once: it is the last request of the call, no   *)
(* sleep follows it, and the raised error carries the status code, the     *)
(* reason phrase and the response body.                                    *)
C3_PermanentFailsAtOnce ==
    \A i \in 1..Len(hlog) :
        (prog = "http" /\ hlog[i] \in PermanentStatuses)
        => /\ i = Len(hlog)
           /\ Len(slept) = i - 1
           /\ hret.kind = "error"
           /\ hret.exc = "RuntimeError:GitHub API error"
           /\ hret.code = hlog[i]
           /\ hret.reason = ReasonOf(hlog[i])
           /\ hret.body = lastResp.body

C3_Witness ==
    /\ prog = "http"
    /\ hlog = <<503, 404>>
    /\ slept = <<1>>
    /\ hret.kind = "error"
    /\ hret.code = 404
    /\ hret.reason = "Not Found"
    /\ hret.body = Body("json", JDict, {Mark422})

(* C4: _http_json always terminates; whatever the server answers it sends  *)
(* at most `retries` requests and sleeps at most retries - 1 times, it     *)
(* does not sleep after the last attempt, and when all `retries` attempts  *)
(* failed it raises instead of returning a value.                          *)
C4_Bounded ==
    LET n == Len(hlog) IN
    prog = "http" =>
        /\ n <= retries
        /\ Len(slept) <= retries - 1
        /\ Len(slept) <= n
        /\ n = retries => (hret.kind # "pending" /\ Len(slept) = retries - 1)
        /\ (n = retries /\ \A i \in 1..n : hlog[i] # StatusOK) => hret.kind = "error"

C4_Terminates == [](C4_Bounded) /\ <>(prog = "http" => hret.kind # "pending")

C4_Witness ==
    /\ prog = "http"
    /\ retries = DefaultRetries
    /\ hlog = <<503, StatusNetwork, 429, StatusNetwork, 500>>
    /\ slept = <<1, 2, 4, 8>>
    /\ hret.kind = "error"

----------------------------------------------------------------------------
(* Pagination: _parse_link_next and the two _iter_issues.                   *)
(* A Link header is a sequence of tokens: "<", ">", ";", ",", " ", a       *)
(* rel parameter, or a URL (a URL is one token: it holds no comma, "<" or  *)
(* ">").  A URL value is the token sequence between the angle brackets;    *)
(* <<>> is the empty string.                                               *)
RelNextQuoted == "rel=\"next\""
RelNextBare == "rel=next"
RelPrev == "rel=\"prev\""
RelLast == "rel=\"last\""
RelFirst == "rel=\"first\""

(* str.split(sep): the k-th piece lies between the (k-1)-th and the k-th  *)
(* occurrence of sep.                                                      *)
SepAt(h, sep, k) ==
    IF k = 0 THEN 0
    ELSE IF k > Cardinality({i \in 1..Len(h) : h[i] = sep}) THEN Len(h) + 1
    ELSE CHOOSE i \in 1..Len(h) :
            h[i] = sep /\ Cardinality({j \in 1..i : h[j] = sep}) = k
SplitBy(h, sep) ==
    [k \in 1..(Cardinality({i \in 1..Len(h) : h[i] = sep}) + 1) |->
        SubSeq(h, SepAt(h, sep, k - 1) + 1, SepAt(h, sep, k) - 1)]
(* link_header.split(",") *)
SplitComma(h) == SplitBy(h, ",")

(* p.strip() *)
Strip(p) ==
    IF \A i \in 1..Len(p) : p[i] = " " THEN <<>>
    ELSE SubSeq(p,
                CHOOSE a \in 1..Len(p) : p[a] # " " /\ \A i \in 1..(a - 1) : p[i] = " ",
                CHOOSE b \in 1..Len(p) : p[b] # " " /\ \A i \in (b + 1)..Len(p) : p[i] = " ")

(* 'rel="next"' in part or "rel=next" in part *)
HasNextRel(part) == \E i \in 1..Len(part) : part[i] \in {RelNextQuoted, RelNextBare}

(* re.search(r"<([^>]+)>", part): the positions where a match can start *)
AngleStarts(part) ==
    {i \in 1..Len(part) :
        /\ part[i] = "<"
        /\ \E j \in (i + 2)..Len(part) :
              part[j] = ">" /\ \A m \in (i + 1)..(j - 1) : part[m] # ">"}

(* m.group(1) of the leftmost match *)
AngleGroup(part) ==
    LET i == CHOOSE a \in AngleStarts(part) : \A b \in AngleStarts(part) : a <= b
        j == CHOOSE c \in (i + 2)..Len(part) :
                 part[c] = ">" /\ \A m \in (i + 1)..(c - 1) : part[m] # ">"
    IN SubSeq(part, i + 1, j - 1)

(* A mutant: the first link of the header, whatever its rel. *)
ParseLinkAnyRel(link_header) ==
    IF link_header = <<>> THEN <<>>
    ELSE LET parts == [k \in 1..Len(SplitComma(link_header)) |->
                          Strip(SplitComma(link_header)[k])]
             hits == {k \in 1..Len(parts) : AngleStarts(parts[k]) # {}}
         IN IF hits = {} THEN <<>>
            ELSE AngleGroup(parts[CHOOSE k \in hits : \A l \in hits : k <= l])

(* _parse_link_next (the same code in both programs) *)
ParseLinkNext(link_header) ==
    IF link_header = <<>> THEN <<>>
    ELSE LET parts == [k \in 1..Len(SplitComma(link_header)) |->
                          Strip(SplitComma(link_header)[k])]
             hits == {k \in 1..Len(parts) :
                         HasNextRel(parts[k]) /\ AngleStarts(parts[k]) # {}}
         IN IF hits = {} THEN <<>>
            ELSE AngleGroup(parts[CHOOSE k \in hits : \A l \in hits : k <= l])

(* The body of an issue, as far as _extract_skill_metadata_repo_url reads  *)
(* it: whether it holds an operit-skill-json comment, whether the comment  *)
(* holds a JSON object, and the object's repositoryUrl and repoUrl.        *)
IssueBody(kind, repositoryUrl, repoUrl) ==
    [kind |-> kind, repositoryUrl |-> repositoryUrl, repoUrl |-> repoUrl]
PlainIssueBody == IssueBody("plain", NoUrl, NoUrl)

(* Items of an issue listing: JSON objects; pull_request tells whether the *)
(* object has a "pull_request" key.                                        *)
Item(number, pr, body) ==
    [isdict |-> TRUE, number |-> number, pull_request |-> pr, body |-> body]

RECURSIVE SelectSeqBy(_, _)
SelectSeqBy(xs, keep) ==
    IF xs = <<>> THEN <<>>
    ELSE (IF keep[1] THEN <<Head(xs)>> ELSE <<>>)
            \o SelectSeqBy(Tail(xs), Tail(keep))

(* the for loop over a page: skip non-objects and items with "pull_request" *)
KeepIssues(data) ==
    SelectSeqBy(data, [i \in 1..Len(data) |-> data[i].isdict /\ ~data[i].pull_request])

(* IssueItem(number=int(it.get("number") or 0), ...) of list_issues.py *)
IssueItem(it) == [number |-> it.number]
IssueItems(xs) == [i \in 1..Len(xs) |-> IssueItem(xs[i])]

(* The server: page k lives at PageUrl(k); the first URL is the one        *)
(* _iter_issues builds from its parameters.                                *)
UrlTokens == <<"u1", "u2", "u3", "u4", "u5", "u6", "u7", "u8">>
PageUrl(k) == <<UrlTokens[k]>>
PageAt(u) == CHOOSE k \in 1..Len(pages) : PageUrl(k) = u
PageResponse(k) ==
    Response(StatusOK, Body("json", JList(pages[k].items), {}), pages[k].link)

(* The importer's `while url:` body after _http_json returned or raised    *)
(* (lines 200-211): the type check, the filter, the next URL, and either   *)
(* the next call of _http_json or the return.                              *)
IterAfterHttp ==
    /\ caller = "iter"
    /\ hret.kind # "pending"
    /\ IF hret.kind = "error" \/ hret.data.type # "list"
       THEN /\ pc' = "raised"
            /\ HttpOver
            /\ UNCHANGED <<url, out>>
       ELSE LET next == ParseLinkNext(hret.link) IN
            /\ out' = out \o KeepIssues(hret.data.items)
            /\ url' = next
            /\ IF next # <<>>
               THEN /\ HttpCall("iter", DefaultRetries)
                    /\ UNCHANGED pc
               ELSE /\ pc' = "returned"
                    /\ HttpOver
    /\ UNCHANGED <<prog, pages, reqlog, pickVars, bodyVars, mainVars>>

(* One request of the importer's _iter_issues, answered by the server. *)
IterRequest(resp) ==
    /\ caller = "iter"
    /\ HttpAttempt(resp)
    /\ reqlog' = Append(reqlog, url)
    /\ UNCHANGED <<prog, pc, pages, url, out, pickVars, bodyVars, mainVars>>

(* One round of the lister's `while url:` loop (lines 143-166) with its    *)
(* _request_json (lines 77-98): one request, no retry.                     *)
ListRound(resp) ==
    /\ prog = "list"
    /\ pc = "list_loop"
    /\ url # <<>>
    /\ reqlog' = Append(reqlog, url)
    /\ IF resp.status = StatusOK /\ resp.body.kind = "json" /\ resp.body.val.type = "list"
       THEN /\ out' = out \o IssueItems(KeepIssues(resp.body.val.items))
            /\ url' = ParseLinkNext(resp.link)
            /\ pc' = IF ParseLinkNext(resp.link) = <<>> THEN "returned" ELSE "list_loop"
       ELSE /\ pc' = "raised"
            /\ UNCHANGED <<url, out>>
    /\ lastResp' = resp
    /\ UNCHANGED <<prog, pages, caller, retries, attempt, slept, hlog, hret, pickVars, bodyVars,
                   mainVars>>

----------------------------------------------------------------------------
(* SpecPage: one call of _iter_issues, of either program, against a        *)
(* server that holds a chain of N pages and answers every request with     *)
(* the page asked for.                                                     *)
LinkValue(u, rel) == <<"<">> \o u \o <<">", ";", " ", rel>>
Sep == <<",", " ">>

(* The Link header of page k of n, in one of two styles. *)
LinkHeader(style, k, n) ==
    CASE style = "bare" ->
            IF k < n THEN LinkValue(PageUrl(k + 1), RelNextBare) ELSE <<>>
      [] OTHER ->   \* what api.github.com sends: prev, next, last, first
            (IF k > 1 THEN LinkValue(PageUrl(k - 1), RelPrev) \o Sep ELSE <<>>)
            \o (IF k < n THEN LinkValue(PageUrl(k + 1), RelNextQuoted) \o Sep
                               \o LinkValue(PageUrl(n), RelLast) \o Sep
                         ELSE <<>>)
            \o (IF n > 1 THEN LinkValue(PageUrl(1), RelFirst) ELSE <<>>)

LinkStyles == {"bare", "github"}

(* The pull_request flags of the items of one page *)
PageShapes == UNION {[1..n -> BOOLEAN] : n \in 0..MaxPageItems}

Chain(style, shapes) ==
    [k \in 1..Len(shapes) |->
        [items |-> [i \in 1..Len(shapes[k]) |-> Item(10 * k + i, shapes[k][i], PlainIssueBody)],
         link |-> LinkHeader(style, k, Len(shapes))]]

Chains ==
    {Chain(style, shapes) :
        style \in LinkStyles, shapes \in UNION {[1..n -> PageShapes] : n \in 1..MaxPages}}

InitPage ==
    /\ prog \in {"iter", "list"}
    /\ pages \in Chains
    /\ url = PageUrl(1)
    /\ out = <<>>
    /\ reqlog = <<>>
    /\ pc = IF prog = "iter" THEN "iter_loop" ELSE "list_loop"
    /\ caller = IF prog = "iter" THEN "iter" ELSE "none"
    /\ retries = DefaultRetries
    /\ attempt = 0
    /\ slept = <<>>
    /\ hlog = <<>>
    /\ lastResp = NoResponse
    /\ hret = Pending
    /\ listing = <<>>
    /\ picked = <<>>
    /\ BodyIdle
    /\ MainIdle

PageIterRequest == prog = "iter" /\ IterRequest(PageResponse(PageAt(url)))
PageIterAfterHttp == prog = "iter" /\ IterAfterHttp
PageListRound == ListRound(PageResponse(PageAt(url)))

NextPage == PageIterRequest \/ PageIterAfterHttp \/ PageListRound

SpecPage == InitPage /\ [][NextPage]_vars

(* SpecLister: _iter_issues of list_issues.py against a server that may    *)
(* also answer a page request with a 429, a server error or not at all.    *)
ListFailures ==
    {Response(429, Body("json", JDict, {}), <<>>), Response(503, Body("json", JDict, {}), <<>>),
     NoResponse}
InitLister == InitPage /\ prog = "list"
ListerRound ==
    /\ pc = "list_loop"
    /\ \E resp \in {PageResponse(PageAt(url))} \cup ListFailures : ListRound(resp)
NextLister == ListerRound
SpecLister == InitLister /\ [][NextLister]_vars

----------------------------------------------------------------------------
(* Claims about pagination *)

RECURSIVE ConcatItems(_)
ConcatItems(ps) == IF ps = <<>> THEN <<>> ELSE Head(ps).items \o ConcatItems(Tail(ps))

WithoutPullRequests(xs) ==
    SelectSeqBy(xs, [i \in 1..Len(xs) |-> ~xs[i].pull_request])

(* The guards of the steps of _iter_issues: a request can be sent (the URL *)
(* names a page of the server) or a finished _http_json call is taken up.  *)
PageCanStep ==
    \/ /\ prog = "list"
       /\ pc = "list_loop"
       /\ \E k \in 1..Len(pages) : url = PageUrl(k)
    \/ /\ prog = "iter"
       /\ caller = "iter"
       /\ \/ hret.kind # "pending"
          \/ attempt < retries /\ \E k \in 1..Len(pages) : url = PageUrl(k)

(* C1: for a chain of N pages linked by rel="next", _iter_issues of both   *)
(* programs requests page 1, 2, ..., N in this order, each exactly once,   *)
(* stops after page N (no request follows it and the call is never stuck  *)
(* short of its return), and returns the concatenation of the pages in order *)
(* without the items that carry a pull_request field (the lister: as       *)
(* IssueItem records).                                                     *)
C1_Pagination ==
    prog \in {"iter", "list"} =>
        /\ Len(reqlog) <= Len(pages)
        /\ \A i \in 1..Len(reqlog) : reqlog[i] = PageUrl(i)
        /\ pc # "raised"
        /\ pc # "returned" => PageCanStep
        /\ pc = "returned" =>
              /\ Len(reqlog) = Len(pages)
              /\ prog = "iter" => out = WithoutPullRequests(ConcatItems(pages))
              /\ prog = "list" => out = IssueItems(WithoutPullRequests(ConcatItems(pages)))

C1_Witness ==
    /\ pc = "returned"
    /\ Len(pages) = 3
    /\ reqlog = <<PageUrl(1), PageUrl(2), PageUrl(3)>>
    /\ Len(out) = 2
    /\ Len(ConcatItems(pages)) = 4

----------------------------------------------------------------------------
(* The content picker: the choice of _pick_skill_markdown (lines 363-384). *)
(* A file name is the sequence of its character codes (ASCII).             *)
N_SKILL_md  == <<83, 75, 73, 76, 76, 46, 109, 100>>
N_skill_md  == <<115, 107, 105, 108, 108, 46, 109, 100>>
N_README_md == <<82, 69, 65, 68, 77, 69, 46, 109, 100>>
N_readme_md == <<114, 101, 97, 100, 109, 101, 46, 109, 100>>
N_guide_md  == <<103, 117, 105, 100, 101, 46, 109, 100>>
N_manual_md == <<109, 97, 110, 117, 97, 108, 46, 109, 100>>
N_B_md      == <<66, 46, 109, 100>>
N_a_md      == <<97, 46, 109, 100>>
N_A_MD      == <<65, 46, 77, 68>>
N_notes_txt == <<110, 111, 116, 101, 115, 46, 116, 120, 116>>
N_aa_md     == <<97, 97, 46, 109, 100>>
DotMd       == <<46, 109, 100>>

(* str.lower() on ASCII text *)
LowerChar(c) == IF c \in 65..90 THEN c + 32 ELSE c
Lower(str) == [i \in 1..Len(str) |-> LowerChar(str[i])]

(* str.endswith(suffix) *)
EndsWith(str, suffix) ==
    /\ Len(str) >= Len(suffix)
    /\ SubSeq(str, Len(str) - Len(suffix) + 1, Len(str)) = suffix

(* a < b for Python strings: by code point, a proper prefix is smaller *)
StrLess(a, b) ==
    LET n == IF Len(a) < Len(b) THEN Len(a) ELSE Len(b)
        diff == {i \in 1..n : a[i] # b[i]}
    IN IF diff = {} THEN Len(a) < Len(b)
       ELSE \E i \in diff : (\A j \in diff : i <= j) /\ a[i] < b[i]

Entry(name, type, hasUrl) == [name |-> name, type |-> type, download_url |-> hasUrl]

(* files = [it for it in data if isinstance(it, dict) and it.get("type") == "file"] *)
Files(data) == SelectSeqBy(data, [i \in 1..Len(data) |-> data[i].type = "file"])

(* A mutant: names are compared exactly, and the first listed wins. *)
FindNameExact(files, names) ==
    LET hit(n) == {i \in 1..Len(files) : files[i].name = n}
        found == {k \in 1..Len(names) : hit(names[k]) # {}}
    IN IF found = {} THEN 0
       ELSE LET k == CHOOSE a \in found : \A b \in found : a <= b
            IN CHOOSE i \in hit(names[k]) : \A j \in hit(names[k]) : i <= j

(* find_name: `lower` maps each lower-cased name to the last file that has *)
(* it; the first of `names` whose lower-cased form is a key wins.  The     *)
(* result is the index of the file in `files`, 0 for None.                 *)
FindName(files, names) ==
    LET hit(n) == {i \in 1..Len(files) : Lower(files[i].name) = Lower(n)}
        found == {k \in 1..Len(names) : hit(names[k]) # {}}
    IN IF found = {} THEN 0
       ELSE LET k == CHOOSE a \in found : \A b \in found : a <= b
            IN CHOOSE i \in hit(names[k]) : \A j \in hit(names[k]) : i >= j

(* md_files, sorted (stably) by lower-cased name: the index of md_files[0] *)
FirstMd(files) ==
    LET md == {i \in 1..Len(files) : EndsWith(Lower(files[i].name), DotMd)}
    IN IF md = {} THEN 0
       ELSE CHOOSE i \in md :
               \A j \in md \ {i} :
                   \/ StrLess(Lower(files[i].name), Lower(files[j].name))
                   \/ Lower(files[i].name) = Lower(files[j].name) /\ i < j

PreferredNames == <<N_SKILL_md, N_README_md, N_readme_md>>

(* candidate: the index in Files(data) of the chosen file, 0 for None *)
Candidate(data) ==
    IF FindName(Files(data), PreferredNames) # 0
    THEN FindName(Files(data), PreferredNames)
    ELSE FirstMd(Files(data))

(* file_name as returned: "" when there is no candidate or it has no download_url *)
PickedName(data) ==
    IF Candidate(data) = 0 THEN <<>>
    ELSE IF ~Files(data)[Candidate(data)].download_url THEN <<>>
    ELSE Files(data)[Candidate(data)].name

PickChoose ==
    /\ prog = "pick"
    /\ pc = "pick_choose"
    /\ picked' = PickedName(listing)
    /\ pc' = "picked"
    /\ UNCHANGED <<prog, listing, bodyVars, httpVars, pageVars, mainVars>>

----------------------------------------------------------------------------
(* SpecPick: the picker on every listing of up to MaxFiles entries.        *)
EntryPool ==
    {Entry(N_SKILL_md, "file", TRUE), Entry(N_skill_md, "file", TRUE),
     Entry(N_README_md, "file", TRUE), Entry(N_readme_md, "file", TRUE),
     Entry(N_guide_md, "file", TRUE), Entry(N_manual_md, "file", TRUE),
     Entry(N_B_md, "file", TRUE), Entry(N_a_md, "file", FALSE),
     Entry(N_A_MD, "file", TRUE), Entry(N_notes_txt, "file", TRUE),
     Entry(N_aa_md, "dir", FALSE)}

Listings ==
    {l \in UNION {[1..n -> EntryPool] : n \in 0..MaxFiles} :
        \A i, j \in 1..Len(l) : i # j => l[i] # l[j]}

InitPick ==
    /\ prog = "pick"
    /\ pc = "pick_choose"
    /\ listing \in Listings
    /\ picked = <<>>
    /\ caller = "none"
    /\ retries = DefaultRetries
    /\ attempt = 0
    /\ slept = <<>>
    /\ hlog = <<>>
    /\ lastResp = NoResponse
    /\ hret = Pending
    /\ pages = <<>>
    /\ url = <<>>
    /\ out = <<>>
    /\ reqlog = <<>>
    /\ BodyIdle
    /\ MainIdle

NextPick == PickChoose

SpecPick == InitPick /\ [][NextPick]_vars

----------------------------------------------------------------------------
(* Claims about the content picker *)

FileNames(data) == {data[i].name : i \in {j \in 1..Len(data) : data[j].type = "file"}}
SmallestOf(names) == CHOOSE n \in names : \A m \in names \ {n} : StrLess(n, m)

(* C10 as stated: SKILL.md if a file has exactly this name, else README.md, *)
(* else readme.md, else the smallest name (as strings compare) among the    *)
(* names ending in .md, else the empty selection.                           *)
C10_ExactNames ==
    (prog = "pick" /\ pc = "picked") =>
        picked =
            IF N_SKILL_md \in FileNames(listing) THEN N_SKILL_md
            ELSE IF N_README_md \in FileNames(listing) THEN N_README_md
            ELSE IF N_readme_md \in FileNames(listing) THEN N_readme_md
            ELSE IF {n \in FileNames(listing) : EndsWith(n, DotMd)} # {}
                 THEN SmallestOf({n \in FileNames(listing) : EndsWith(n, DotMd)})
            ELSE <<>>

(* C10, amended: names are compared ignoring case.  The choice is the file *)
(* whose name is SKILL.md ignoring case if there is one, else the file     *)
(* whose name is README.md ignoring case (of several files with the same   *)
(* name ignoring case, the last listed), else, among the files whose name  *)
(* ends in .md ignoring case, the one whose lower-cased name is smallest   *)
(* (the first listed of equals).  The selection is empty when there is no  *)
(* such file or the chosen file has no download URL.                       *)
C10_Choice ==
    LET fileIdx == {i \in 1..Len(listing) : listing[i].type = "file"}
        same(n) == {i \in fileIdx : Lower(listing[i].name) = Lower(n)}
        last(S) == CHOOSE i \in S : \A j \in S : j <= i
        md == {i \in fileIdx : EndsWith(Lower(listing[i].name), Lower(DotMd))}
        least == CHOOSE i \in md : \A j \in md \ {i} :
                    \/ StrLess(Lower(listing[i].name), Lower(listing[j].name))
                    \/ Lower(listing[i].name) = Lower(listing[j].name) /\ i < j
        choice == IF same(N_SKILL_md) # {} THEN last(same(N_SKILL_md))
                  ELSE IF same(N_README_md) # {} THEN last(same(N_README_md))
                  ELSE IF md # {} THEN least
                  ELSE 0
    IN choice

C10_IgnoringCase ==
    (prog = "pick" /\ pc = "picked") =>
        picked = IF C10_Choice = 0 THEN <<>>
                 ELSE IF ~listing[C10_Choice].download_url THEN <<>>
                 ELSE listing[C10_Choice].name

(* the claim's first example: README.md, SKILL.md and a third .md file *)
C10_Witness ==
    /\ prog = "pick"
    /\ pc = "picked"
    /\ listing = <<Entry(N_README_md, "file", TRUE), Entry(N_SKILL_md, "file", TRUE),
                   Entry(N_guide_md, "file", TRUE)>>
    /\ picked = N_SKILL_md

----------------------------------------------------------------------------
(* The importer's main.  Paths and names are character-code sequences.     *)
Slash == 47
N_a == <<97>>
N_b == <<98>>
N_x == <<120>>
N_z == <<122>>
N_skills == <<115, 107, 105, 108, 108, 115>>
N_other == <<111, 116, 104, 101, 114>>
N_dot == <<46>>

RECURSIVE JoinPath(_)
(* "/".join(components) *)
JoinPath(cs) ==
    IF cs = <<>> THEN <<>>
    ELSE IF Len(cs) = 1 THEN cs[1]
    ELSE cs[1] \o <<Slash>> \o JoinPath(Tail(cs))

StartsWith(str, prefix) ==
    Len(str) >= Len(prefix) /\ SubSeq(str, 1, Len(prefix)) = prefix

RECURSIVE LStripSlash(_)
(* path.lstrip("/") *)
LStripSlash(str) ==
    IF str # <<>> /\ Head(str) = Slash THEN LStripSlash(Tail(str)) ELSE str

(* sorted(strings): the elements of a set of strings in increasing order *)
SortedStrings(S) ==
    LET rank == [x \in S |-> Cardinality({y \in S : StrLess(y, x)})]
    IN [r \in 1..Cardinality(S) |-> CHOOSE x \in S : rank[x] = r - 1]

(* list.sort(key=lambda x: x.name): stable, by name *)
SortByName(xs) ==
    LET rank == [i \in 1..Len(xs) |->
                    Cardinality({j \in 1..Len(xs) :
                        \/ StrLess(xs[j].name, xs[i].name)
                        \/ xs[j].name = xs[i].name /\ j < i})]
    IN [r \in 1..Len(xs) |-> xs[CHOOSE i \in 1..Len(xs) : rank[i] = r - 1]]

SourceSkill(name, path) == [name |-> name, path |-> path]

(* --source-root (default "skills") and the prefix of lines 252-255 *)
SourceRoot == cfg.source_root
RECURSIVE RStripSlash(_)
RStripSlash(str) ==
    IF str # <<>> /\ str[Len(str)] = Slash
    THEN RStripSlash(SubSeq(str, 1, Len(str) - 1)) ELSE str
(* root_path.strip("/") *)
StripSlash(str) == RStripSlash(LStripSlash(str))
(* lines 252-254: "." is the top of the repository *)
Root == IF StripSlash(SourceRoot) = N_dot THEN <<>> ELSE StripSlash(SourceRoot)
RootPrefix == IF Root = <<>> THEN <<>> ELSE Root \o <<Slash>>

(* _list_source_skills_recursive, lines 257-285, on the "tree" list.       *)
(* A mutant: the test of the root prefix (line 265) is left out.           *)
SkillDirsAnyRoot(items) ==
    {SubSeq(it.path, 1, Len(it.path) - Len(<<Slash>> \o N_SKILL_md)) :
        it \in {items[i] : i \in {j \in 1..Len(items) :
                   /\ items[j].type = "blob"
                   /\ EndsWith(items[j].path, <<Slash>> \o N_SKILL_md)}}}
SkillDirs(items) ==
    {SubSeq(it.path, 1, Len(it.path) - Len(<<Slash>> \o N_SKILL_md)) :
        it \in {items[i] : i \in {j \in 1..Len(items) :
                   /\ items[j].type = "blob"
                   /\ EndsWith(items[j].path, <<Slash>> \o N_SKILL_md)
                   /\ (RootPrefix # <<>> => StartsWith(items[j].path, RootPrefix))
                   /\ Len(items[j].path) > Len(<<Slash>> \o N_SKILL_md)}}}

LastComponent(path) == SplitBy(path, Slash)[Len(SplitBy(path, Slash))]

SkillsOfTree(items) ==
    LET dirs == SortedStrings(SkillDirs(items))
    IN SortByName([r \in 1..Len(dirs) |-> SourceSkill(LastComponent(dirs[r]), dirs[r])])

(* _list_source_skills, lines 325-341, on the contents list *)
SkillsOfContents(data) ==
    SortByName(SelectSeqBy(
        [i \in 1..Len(data) |-> SourceSkill(data[i].name, data[i].path)],
        [i \in 1..Len(data) |-> data[i].type = "dir" /\ data[i].name # <<>>]))

(* lines 719-722: the names that occur more than once, sorted.             *)
(* A mutant: v >= 1 in place of v > 1.                                     *)
DupNamesOffByOne(xs) == SortedStrings({xs[i].name : i \in 1..Len(xs)})
DupNames(xs) ==
    SortedStrings({n \in {xs[i].name : i \in 1..Len(xs)} :
                      Cardinality({i \in 1..Len(xs) : xs[i].name = n}) > 1})

(* line 729: dups[:50] *)
Reported(dups) == SubSeq(dups, 1, IF Len(dups) > DupReportCap THEN DupReportCap ELSE Len(dups))

(* lines 734-742: --only-skill and --limit.  A mutant: --limit is ignored. *)
OnlySkill(xs, only) ==
    IF only = <<>> THEN xs
    ELSE SelectSeqBy(xs, [i \in 1..Len(xs) |-> xs[i].name = only])
LimitIgnored(xs, limit) == xs
Limited(xs, limit) ==
    IF limit > 0 /\ limit < Len(xs) THEN SubSeq(xs, 1, limit) ELSE xs

(* line 752: repo_url *)
GithubTreeBase == "https://github.com/<source_repo>/tree/<source_ref>/"
RepoUrl(path) == [base |-> GithubTreeBase, path |-> LStripSlash(path)]

(* _extract_skill_metadata_repo_url.  A mutant: only the legacy key.       *)
ExtractLegacyKeyOnly(body) == IF body.kind # "meta" THEN NoUrl ELSE body.repoUrl
ExtractRepoUrl(body) ==
    IF body.kind # "meta" THEN NoUrl
    ELSE IF body.repositoryUrl # NoUrl THEN body.repositoryUrl
    ELSE body.repoUrl

(* lines 686-690 *)
ExistingRepoUrls(issues) ==
    {ExtractRepoUrl(issues[i].body) : i \in 1..Len(issues)} \ {NoUrl}

(* line 836. A mutant: always 0. *)
ExitAlwaysZero(f) == 0
ExitStatus(f) == IF f = 0 THEN 0 ELSE 1

(* str(e) of the exception a creation call raised contains "422" (line 813) *)
Mentions422(h) ==
    \/ h.exc = "RuntimeError:GitHub API error" /\ (h.code = 422 \/ Mark422 \in h.body.marks)
    \/ h.exc = "RuntimeError:Unexpected create issue response" /\ Mark422 \in h.body.marks

(* _create_issue, lines 519-522: what the call raises or returns *)
CreateOutcome(h) ==
    IF h.kind = "ok" /\ h.data.type # "dict"
    THEN [h EXCEPT !.kind = "error",
                   !.exc = "RuntimeError:Unexpected create issue response",
                   !.body = lastResp.body]
    ELSE h

(* ---- the servers main talks to ---- *)
(* The source repository: blobs by path; the contents API of a directory.  *)
BlobPool ==
    {JoinPath(<<N_skills, N_a, N_SKILL_md>>), JoinPath(<<N_skills, N_b, N_SKILL_md>>),
     JoinPath(<<N_skills, N_x, N_a, N_SKILL_md>>), JoinPath(<<N_skills, N_x, N_b, N_guide_md>>),
     JoinPath(<<N_other, N_b, N_SKILL_md>>)}
Trees == {SortedStrings(S) : S \in {T \in SUBSET BlobPool : Cardinality(T) <= MaxBlobs}}
(* repositories with a SKILL.md in the top directory *)
TopTrees ==
    {SortedStrings(S \cup {N_SKILL_md}) :
        S \in {T \in SUBSET BlobPool : Cardinality(T) < MaxBlobs}}

(* A repository where n folder names each occur twice: skills/<name> and   *)
(* skills/x/<name>, for the names aa, ab, ..., in the order of a git tree. *)
TwoLetters(i) == <<97 + (i \div 26), 97 + (i % 26)>>
TwiceTree(n) ==
    [i \in 1..(2 * n) |->
        IF i <= n THEN JoinPath(<<N_skills, TwoLetters(i - 1), N_SKILL_md>>)
        ELSE JoinPath(<<N_skills, N_x, TwoLetters(i - n - 1), N_SKILL_md>>)]
TwiceTrees == {TwiceTree(n) : n \in {DupReportCap, MaxDupNames}}

TreeItems(t) == [i \in 1..Len(t) |-> [path |-> t[i], type |-> "blob"]]

ContentsOf(t, dir) ==
    LET under == SelectSeqBy(t, [i \in 1..Len(t) |-> StartsWith(t[i], dir \o <<Slash>>)])
        rest(i) == SplitBy(SubSeq(under[i], Len(dir) + 2, Len(under[i])), Slash)
        firsts == SelectSeqBy([i \in 1..Len(under) |-> i],
                              [i \in 1..Len(under) |->
                                  \A j \in 1..(i - 1) : rest(j)[1] # rest(i)[1]])
    IN [k \in 1..Len(firsts) |->
           [name |-> rest(firsts[k])[1],
            type |-> IF Len(rest(firsts[k])) > 1 THEN "dir" ELSE "file",
            path |-> dir \o <<Slash>> \o rest(firsts[k])[1],
            download_url |-> Len(rest(firsts[k])) = 1]]

OkJson(val, marks) == Response(StatusOK, Body("json", val, marks), <<>>)
Failure(status, marks) == Response(status, Body("json", JDict, marks), <<>>)

(* What the GitHub API answers to a GET of main, when it answers well *)
GetAnswer(truncated) ==
    CASE caller = "commit" -> OkJson(JObj([sha |-> "tree-sha"]), {})
      [] caller = "tree" -> OkJson(JObj([truncated |-> truncated, tree |-> TreeItems(tree)]), {})
      [] caller = "contents" -> OkJson(JList(ContentsOf(tree, StripSlash(SourceRoot))), {})
      [] caller = "pick" -> OkJson(JList(ContentsOf(tree, skills[idx].path)), {})
      [] caller = "iter" -> PageResponse(PageAt(url))
      [] OTHER -> NoResponse
(* a tree listing may be marked truncated *)
GetAnswers == {GetAnswer(t) : t \in IF caller = "tree" THEN BOOLEAN ELSE {FALSE}}
GetFailures == {Failure(404, {}), Failure(503, {})}
(* The answers to the POST that creates an issue *)
PostResponses ==
    {OkJson(JObj([number |-> 1]), {}), Response(StatusOK, EmptyBody, <<>>),
     Failure(422, {}), Failure(404, {}), Failure(404, {Mark422}), Failure(503, {})}

(* Whether the target repository made the issue when it answers a POST so: *)
(* a 2xx says it did, a 4xx that it did not; a server error (or no answer) *)
(* can come before or after the issue was made.                            *)
ServerMade(resp) ==
    IF resp.status = StatusOK THEN {TRUE}
    ELSE IF resp.status \in {StatusNetwork, 500, 502, 503, 504} THEN BOOLEAN
    ELSE {FALSE}

(* The issue listing of the target repository *)
TargetChains ==
    {<<[items |-> <<Item(1, FALSE, IssueBody("meta", RepoUrl(JoinPath(<<N_skills, N_a>>)), NoUrl)),
                    Item(2, TRUE, IssueBody("meta", RepoUrl(JoinPath(<<N_skills, N_b>>)), NoUrl))>>,
        link |-> LinkHeader("github", 1, 1)]>>,
     <<[items |-> <<Item(1, FALSE, PlainIssueBody),
                    Item(2, FALSE, IssueBody("badjson", RepoUrl(JoinPath(<<N_skills, N_a>>)), NoUrl))>>,
        link |-> LinkHeader("github", 1, 2)],
       [items |-> <<Item(3, FALSE, IssueBody("meta", NoUrl, RepoUrl(JoinPath(<<N_skills, N_b>>))))>>,
        link |-> LinkHeader("github", 2, 2)]>>}

(* ---- the steps of main ---- *)
Line(kind, name, text) == [kind |-> kind, name |-> name, text |-> text]

(* return 2 *)
Exit2 ==
    /\ exitCode' = 2
    /\ pc' = "exit"

(* an exception nothing catches: the interpreter prints it and exits *)
Uncaught ==
    /\ pc' = "raised"
    /\ HttpOver

(* lines 692-710: the first request of discovery; repo.split("/", 1) of   *)
(* lines 215, 237 and 313 raises ValueError when --source-repo has no slash *)
StartDiscovery ==
    IF cfg.source_ok
    THEN /\ HttpCall(IF cfg.recursive THEN "commit" ELSE "contents", DefaultRetries)
         /\ pc' = "discover"
    ELSE Uncaught

(* lines 655-685 *)
MainConfig ==
    /\ prog = "import"
    /\ pc = "start"
    /\ IF \/ ~cfg.ai_ok
          \/ ~cfg.token_ok /\ ~cfg.dry_run
          \/ ~cfg.target_ok
       THEN Exit2 /\ UNCHANGED <<httpVars, url>>
       ELSE IF cfg.skip_existing
       THEN /\ HttpCall("iter", DefaultRetries)
            /\ url' = PageUrl(1)
            /\ pc' = "prefetch"
            /\ UNCHANGED exitCode
       ELSE StartDiscovery /\ UNCHANGED <<exitCode, url>>
    /\ UNCHANGED <<prog, pages, out, reqlog, pickVars, bodyVars, cfg, tree, discovered, skills,
                   existing, idx, created, skipped, failed, dupsReported, warned, cur, lastPrint>>

(* a GET of main: one attempt of the active _http_json call *)
MainGet(resp) ==
    /\ prog = "import"
    /\ caller \in {"commit", "tree", "contents", "pick"}
    /\ HttpAttempt(resp)
    /\ cur' = IF caller = "pick" THEN [cur EXCEPT !.fetched = TRUE] ELSE cur
    /\ UNCHANGED <<prog, pc, pageVars, pickVars, bodyVars, cfg, tree, discovered, skills, existing,
                   idx, created, skipped, failed, exitCode, dupsReported, warned, lastPrint>>

(* lines 686-690, after _iter_issues returned *)
MainAfterIter ==
    /\ prog = "import"
    /\ pc = "returned"
    /\ existing' = ExistingRepoUrls(out)
    /\ StartDiscovery
    /\ UNCHANGED <<prog, pageVars, pickVars, bodyVars, cfg, tree, discovered, skills,
                   idx, created, skipped, failed, exitCode, dupsReported, warned, cur, lastPrint>>

(* lines 214-243: _get_tree_sha_for_ref returned or raised *)
MainAfterCommit ==
    /\ prog = "import"
    /\ caller = "commit"
    /\ hret.kind # "pending"
    /\ IF hret.kind = "error" \/ hret.data.type # "dict"
       THEN Uncaught
       ELSE HttpCall("tree", DefaultRetries) /\ UNCHANGED pc
    /\ UNCHANGED <<prog, pageVars, pickVars, bodyVars, mainVars>>

(* lines 711-748: the truncated-results warning, duplicate check, --only-skill, --limit, the counters *)
Select(found, truncated_tree) ==
    /\ discovered' = found
    /\ warned' = (cfg.verbose /\ cfg.recursive /\ truncated_tree)
    /\ IF ~cfg.allow_duplicate_ids /\ DupNames(found) # <<>>
       THEN /\ dupsReported' = Reported(DupNames(found))
            /\ Exit2
            /\ UNCHANGED <<skills, idx>>
       ELSE IF cfg.only_skill # <<>> /\ OnlySkill(found, cfg.only_skill) = <<>>
       THEN /\ Exit2
            /\ UNCHANGED <<skills, idx, dupsReported>>
       ELSE /\ skills' = Limited(OnlySkill(found, cfg.only_skill), cfg.limit)
            /\ idx' = 1
            /\ pc' = "loop"
            /\ UNCHANGED <<exitCode, dupsReported>>
    /\ created' = 0
    /\ skipped' = 0
    /\ failed' = 0
    /\ HttpOver
    /\ UNCHANGED <<prog, pageVars, pickVars, bodyVars, cfg, tree, existing, cur, lastPrint>>

(* lines 243-285 and 718-748 *)
MainAfterTree ==
    /\ prog = "import"
    /\ caller = "tree"
    /\ hret.kind # "pending"
    /\ IF hret.kind = "error" \/ hret.data.type # "dict"
       THEN Uncaught /\ UNCHANGED <<prog, pageVars, pickVars, bodyVars, mainVars>>
       ELSE Select(SkillsOfTree(hret.data.items.tree), hret.data.items.truncated)

(* lines 321-341 and 718-748 *)
MainAfterContents ==
    /\ prog = "import"
    /\ caller = "contents"
    /\ hret.kind # "pending"
    /\ IF hret.kind = "error" \/ hret.data.type # "list"
       THEN Uncaught /\ UNCHANGED <<prog, pageVars, pickVars, bodyVars, mainVars>>
       ELSE Select(SkillsOfContents(hret.data.items), FALSE)

(* the end of one round of the main loop: the next item *)
NextItem ==
    /\ idx' = idx + 1
    /\ pc' = "loop"
    /\ cur' = FreshItem
    /\ HttpOver

(* lines 831-833 *)
ItemFailed(text) ==
    /\ failed' = failed + 1
    /\ lastPrint' = Line("fail", skills[idx].name, text)
    /\ NextItem
    /\ UNCHANGED <<created, skipped, exitCode>>

(* lines 826-829 and 796-799 *)
ItemCreated(kind) ==
    /\ created' = created + 1
    /\ lastPrint' = Line(kind, skills[idx].name, "")
    /\ NextItem
    /\ UNCHANGED <<skipped, failed, exitCode>>

(* lines 749-766 and 835-836: the head of the for loop *)
MainLoopHead ==
    /\ prog = "import"
    /\ pc = "loop"
    /\ IF idx > Len(skills)
       THEN /\ lastPrint' = Line("done", <<>>, "")
            /\ exitCode' = ExitStatus(failed)
            /\ pc' = "done"
            /\ UNCHANGED <<httpVars, idx, created, skipped, failed, cur>>
       ELSE IF cfg.skip_existing /\ RepoUrl(skills[idx].path) \in existing
       THEN /\ skipped' = skipped + 1
            /\ lastPrint' = Line("skip", skills[idx].name, "")
            /\ NextItem
            /\ UNCHANGED <<created, failed, exitCode>>
       ELSE /\ HttpCall("pick", DefaultRetries)
            /\ pc' = "pick"
            /\ UNCHANGED <<idx, created, skipped, failed, exitCode, cur, lastPrint>>
    /\ UNCHANGED <<prog, pageVars, pickVars, bodyVars, cfg, tree, discovered, skills, existing,
                   dupsReported, warned>>

(* lines 359-384: the listing came back; the choice of the file *)
MainAfterPick ==
    /\ prog = "import"
    /\ caller = "pick"
    /\ hret.kind # "pending"
    /\ IF hret.kind = "error"
       THEN Uncaught /\ UNCHANGED cur
       ELSE /\ cur' = [cur EXCEPT !.md = IF hret.data.type = "list"
                                         THEN PickedName(hret.data.items) ELSE <<>>]
            /\ pc' = IF hret.data.type = "list" /\ PickedName(hret.data.items) # <<>>
                     THEN "download" ELSE "ai"
            /\ HttpOver
    /\ UNCHANGED <<prog, pageVars, pickVars, bodyVars, cfg, tree, discovered, skills, existing,
                   idx, created, skipped, failed, exitCode, dupsReported, warned, lastPrint>>

(* lines 386-393: urlopen(download_url), outside any try *)
MainDownload(ok) ==
    /\ prog = "import"
    /\ pc = "download"
    /\ cur' = [cur EXCEPT !.downloaded = TRUE]
    /\ pc' = IF ok THEN "ai" ELSE "raised"
    /\ UNCHANGED <<prog, httpVars, pageVars, pickVars, bodyVars, cfg, tree, discovered, skills,
                   existing, idx, created, skipped, failed, exitCode, dupsReported, warned,
                   lastPrint>>

(* lines 773-799: the summarization request and what follows it *)
MainSummarize(reply) ==
    /\ prog = "import"
    /\ pc = "ai"
    /\ IF reply = "error"
       THEN ItemFailed("AI request failed")
       ELSE IF reply = "empty"
       THEN ItemFailed("AI returned empty description")
       ELSE IF cfg.dry_run
       THEN ItemCreated("dry-run")
       ELSE /\ HttpCall("create", DefaultRetries)
            /\ pc' = "create"
            /\ cur' = [cur EXCEPT !.summarized = TRUE, !.createCalls = 1]
            /\ UNCHANGED <<idx, created, skipped, failed, exitCode, lastPrint>>
    /\ UNCHANGED <<prog, pageVars, pickVars, bodyVars, cfg, tree, discovered, skills, existing,
                   dupsReported, warned>>

(* a POST of _create_issue: one attempt of the active _http_json call;     *)
(* `made` tells whether the target repository made an issue of it          *)
MainPost(resp, made) ==
    /\ prog \in {"import", "create"}
    /\ caller \in {"create", "fallback"}
    /\ HttpAttempt(resp)
    /\ cur' = [cur EXCEPT !.posted = TRUE, !.made = @ + (IF made THEN 1 ELSE 0)]
    /\ UNCHANGED <<prog, pc, pageVars, pickVars, bodyVars, cfg, tree, discovered, skills, existing,
                   idx, created, skipped, failed, exitCode, dupsReported, warned, lastPrint>>

(* lines 801-829: the first _create_issue returned or raised *)
MainAfterCreate ==
    /\ prog \in {"import", "create"}
    /\ caller = "create"
    /\ hret.kind # "pending"
    /\ IF CreateOutcome(hret).kind = "ok"
       THEN ItemCreated("ok")
       ELSE IF Mentions422(CreateOutcome(hret))
       THEN /\ HttpCall("fallback", DefaultRetries)
            /\ cur' = [cur EXCEPT !.createCalls = 2,
                                  !.firstCreate = IF CreateOutcome(hret).code = 422
                                                  THEN "HTTP 422" ELSE "other"]
            /\ pc' = "fallback"
            /\ UNCHANGED <<idx, created, skipped, failed, exitCode, lastPrint>>
       ELSE ItemFailed(CreateOutcome(hret).exc)
    /\ UNCHANGED <<prog, pageVars, pickVars, bodyVars, cfg, tree, discovered, skills, existing,
                   dupsReported, warned>>

(* lines 814-833: the second _create_issue (labels=[]) returned or raised *)
MainAfterFallback ==
    /\ prog \in {"import", "create"}
    /\ caller = "fallback"
    /\ hret.kind # "pending"
    /\ IF CreateOutcome(hret).kind = "ok"
       THEN ItemCreated("ok")
       ELSE ItemFailed(CreateOutcome(hret).exc)
    /\ UNCHANGED <<prog, pageVars, pickVars, bodyVars, cfg, tree, discovered, skills, existing,
                   dupsReported, warned>>

----------------------------------------------------------------------------
(* Spec: one run of the importer.                                          *)
Configs ==
    {[NoCfg EXCEPT !.recursive = r, !.skip_existing = s, !.allow_duplicate_ids = a,
                   !.dry_run = d] : r, s, a, d \in BOOLEAN}
    \cup {[NoCfg EXCEPT !.recursive = TRUE, !.allow_duplicate_ids = TRUE, !.limit = 1],
          [NoCfg EXCEPT !.recursive = TRUE, !.allow_duplicate_ids = TRUE, !.only_skill = N_a],
          [NoCfg EXCEPT !.dry_run = TRUE, !.limit = 1],
          [NoCfg EXCEPT !.only_skill = N_z],
          [NoCfg EXCEPT !.ai_ok = FALSE],
          [NoCfg EXCEPT !.token_ok = FALSE],
          [NoCfg EXCEPT !.token_ok = FALSE, !.dry_run = TRUE],
          [NoCfg EXCEPT !.target_ok = FALSE],
          [NoCfg EXCEPT !.source_ok = FALSE],
          [NoCfg EXCEPT !.recursive = TRUE, !.verbose = TRUE],
          [NoCfg EXCEPT !.recursive = TRUE, !.source_root = <<46, 47>>],
          [NoCfg EXCEPT !.source_ok = FALSE, !.recursive = TRUE, !.skip_existing = TRUE]}

Init ==
    /\ prog = "import"
    /\ pc = "start"
    /\ cfg \in Configs
    /\ tree \in Trees \cup (IF cfg = [NoCfg EXCEPT !.recursive = TRUE]
                           THEN TwiceTrees ELSE {})
                    \cup (IF cfg.source_root # NoCfg.source_root THEN TopTrees ELSE {})
    /\ pages \in IF cfg.skip_existing THEN TargetChains
                 ELSE {CHOOSE c \in TargetChains : Len(c) = 1}
    /\ caller = "none"
    /\ retries = DefaultRetries
    /\ attempt = 0
    /\ slept = <<>>
    /\ hlog = <<>>
    /\ lastResp = NoResponse
    /\ hret = Pending
    /\ url = <<>>
    /\ out = <<>>
    /\ reqlog = <<>>
    /\ listing = <<>>
    /\ picked = <<>>
    /\ discovered = <<>>
    /\ skills = <<>>
    /\ existing = {}
    /\ idx = 0
    /\ created = 0
    /\ skipped = 0
    /\ failed = 0
    /\ exitCode = -1
    /\ dupsReported = <<>>
    /\ warned = FALSE
    /\ cur = FreshItem
    /\ lastPrint = NoPrint
    /\ BodyIdle

ImportIterRequest ==
    /\ prog = "import"
    /\ \E resp \in GetAnswers \cup GetFailures : IterRequest(resp)
ImportIterAfterHttp == prog = "import" /\ IterAfterHttp
ImportGet == \E resp \in GetAnswers \cup GetFailures : MainGet(resp)
ImportDownload == \E ok \in BOOLEAN : MainDownload(ok)
ImportSummarize == \E reply \in {"text", "empty", "error"} : MainSummarize(reply)
(* here the target repository makes the issue exactly when it answers 2xx *)
ImportPost == \E resp \in PostResponses : prog = "import" /\ MainPost(resp, resp.status = StatusOK)

Next ==
    \/ MainConfig
    \/ ImportIterRequest
    \/ ImportIterAfterHttp
    \/ MainAfterIter
    \/ ImportGet
    \/ MainAfterCommit
    \/ MainAfterTree
    \/ MainAfterContents
    \/ MainLoopHead
    \/ MainAfterPick
    \/ ImportDownload
    \/ ImportSummarize
    \/ ImportPost
    \/ MainAfterCreate
    \/ MainAfterFallback

Spec == Init /\ [][Next]_vars

----------------------------------------------------------------------------
(* Claims about the importer's main loop *)

(* the issues of the target repository: every item of every page that is   *)
(* no pull request                                                         *)
TargetIssues ==
    {it \in UNION {{pages[p].items[i] : i \in 1..Len(pages[p].items)} : p \in 1..Len(pages)} :
        it.isdict /\ ~it.pull_request}

(* the repositoryUrl values of the metadata embedded in the target's issues *)
TargetRepositoryUrls ==
    {it.body.repositoryUrl : it \in {t \in TargetIssues : t.body.kind = "meta"}} \ {NoUrl}

(* the loop is at an item whose URL is one of them, with --skip-existing *)
AtExistingItem ==
    /\ prog = "import"
    /\ cfg.skip_existing
    /\ idx \in 1..Len(skills)
    /\ RepoUrl(skills[idx].path) \in TargetRepositoryUrls

(* C5: with skip-existing, an item whose repository URL equals the         *)
(* repositoryUrl of the metadata of an existing target issue is skipped:   *)
(* while the loop is at it, no listing or file is fetched, no              *)
(* summarization and no creation request is sent, and the step that leaves *)
(* it adds one to skipped and leaves created and failed as they are.       *)
C5_SkipExisting ==
    /\ [](AtExistingItem => (pc = "loop" /\ cur = FreshItem /\ caller = "none"))
    /\ [][(AtExistingItem /\ (idx' # idx \/ pc' # pc)) =>
             /\ idx' = idx + 1
             /\ skipped' = skipped + 1
             /\ created' = created
             /\ failed' = failed
             /\ lastPrint' = Line("skip", skills[idx].name, "")]_vars

C5_Witness ==
    /\ prog = "import"
    /\ cfg.skip_existing
    /\ idx = 2
    /\ RepoUrl(skills[1].path) \in TargetRepositoryUrls
    /\ skipped = 1
    /\ created = 0
    /\ failed = 0
    /\ lastPrint.kind = "skip"

(* the names that occur at more than one place of a list of items *)
Repeated(xs) ==
    {xs[i].name : i \in {j \in 1..Len(xs) : \E k \in 1..Len(xs) : k # j /\ xs[k].name = xs[j].name}}

Elements(seq) == {seq[i] : i \in 1..Len(seq)}

(* nothing was done for any item *)
NothingProcessed ==
    /\ idx = 0
    /\ cur = FreshItem
    /\ caller = "none"
    /\ created = 0 /\ skipped = 0 /\ failed = 0

(* the override is set, and neither --only-skill nor --limit narrows the run *)
OverrideOnly == cfg.allow_duplicate_ids /\ cfg.only_skill = <<>> /\ cfg.limit = 0

(* with the override every discovered item is selected, and a run that     *)
(* reaches the end of its loop has counted every one of them               *)
C6_OverrideProceeds ==
    (prog = "import" /\ OverrideOnly) =>
        /\ dupsReported = <<>>
        /\ exitCode # 2
        /\ idx >= 1 => skills = discovered
        /\ pc = "done" => created + skipped + failed = Len(discovered)

C7_FallbackOnlyAfter422 ==
    prog = "import" =>
        /\ cur.createCalls <= 2
        /\ cur.createCalls = 2 => cur.firstCreate = "HTTP 422"

(* C8: once the loop has begun, no failure in the processing of an item    *)
(* ends the run: no exception leaves main.                                 *)
C8_NoItemAbortsRun ==
    (prog = "import" /\ idx >= 1) => pc # "raised"

(* C9: in the main loop the counters never decrease; the step that leaves  *)
(* an item adds one to exactly one of them and no other step changes them; *)
(* so they sum to the number of items left behind, and at the end of the   *)
(* loop to the number of selected items, and the exit status is then 1 if  *)
(* failed > 0 and 0 otherwise.                                             *)
C9_Counters ==
    /\ []((prog = "import" /\ idx >= 1) =>
            /\ created >= 0 /\ skipped >= 0 /\ failed >= 0
            /\ created + skipped + failed = idx - 1
            /\ pc = "done" =>
                  /\ created + skipped + failed = Len(skills)
                  /\ exitCode = IF failed > 0 THEN 1 ELSE 0
            /\ pc # "done" => exitCode = -1)
    /\ [][(prog = "import" /\ idx >= 1) =>
             /\ created' >= created /\ skipped' >= skipped /\ failed' >= failed
             /\ (created' + skipped' + failed') - (created + skipped + failed)
                    = IF idx' = idx THEN 0 ELSE 1
             /\ idx' \in {idx, idx + 1}]_vars

C9_Witness ==
    /\ prog = "import"
    /\ pc = "done"
    /\ Len(skills) = 3
    /\ created = 1 /\ skipped = 1 /\ failed = 1
    /\ exitCode = 1

----------------------------------------------------------------------------
(* _build_operit_issue_body and _extract_skill_metadata_repo_url on text.  *)
(* A text is a sequence of tokens: "u" stands for an ordinary character,   *)
(* "<!--" and "-->" for these character runs.                              *)
Quote == "\""
Backslash == "\\"

RECURSIVE Flatten(_)
Flatten(seqs) == IF seqs = <<>> THEN <<>> ELSE Head(seqs) \o Flatten(Tail(seqs))

(* json.dumps of a str: quotes and backslashes are escaped *)
DumpString(str) ==
    <<Quote>>
    \o Flatten([i \in 1..Len(str) |->
                   IF str[i] \in {Quote, Backslash} THEN <<Backslash, str[i]>> ELSE <<str[i]>>])
    \o <<Quote>>

(* lines 463-468 and 473: json.dumps(metadata, separators=(',', ':')) *)
DumpMetadata(repository_url, version) ==
    <<"{">> \o DumpString(<<"repositoryUrl">>) \o <<":">> \o DumpString(repository_url)
    \o <<",">> \o DumpString(<<"category">>) \o <<":">> \o DumpString(<<>>)
    \o <<",">> \o DumpString(<<"tags">>) \o <<":">> \o DumpString(<<>>)
    \o <<",">> \o DumpString(<<"version">>) \o <<":">> \o DumpString(version)
    \o <<"}">>

(* lines 472-506: "\n".join(lines) *)
BuildOperitIssueBody(description, repository_url, version) ==
    <<"<!--", " ", "operit-skill-json:", " ">> \o DumpMetadata(repository_url, version)
        \o <<" ", "-->", "\n">>
    \o <<"<!--", " ", "operit-parser-version:", " ">> \o version \o <<" ", "-->", "\n">>
    \o <<"\n", "## info", "\n", "\n", "**description:**", " ">> \o description \o <<"\n", "\n">>
    \o (IF repository_url # <<>>
        THEN <<"## repository", "\n", "\n", "**address:**", " ">> \o repository_url
             \o <<"\n", "\n", "## install", "\n", "\n", "1.", "\n", "2.", "\n", "3.", "backtick">>
             \o repository_url \o <<"backtick", "\n", "4.", "\n", "\n">>
        ELSE <<>>)
    \o <<"## technical", "\n", "\n", "table", "\n", "now_str", "\n", "\n">>

(* \s of the regular expression, str.strip() *)
IsSpace(t) == t \in {" ", "\n"}

(* the first place from i on that holds no white space (Len + 1 if none) *)
SkipSpace(text, i) ==
    CHOOSE j \in i..(Len(text) + 1) :
        /\ j = Len(text) + 1 \/ ~IsSpace(text[j])
        /\ \A k \in i..(j - 1) : IsSpace(text[k])

(* the token at place j, "" past the end *)
At(text, j) == IF j \in 1..Len(text) THEN text[j] ELSE ""

(* line 291, re.search: the comment opener, white space, the marker,       *)
(* white space, a group from a left brace to a right brace, white space,   *)
(* the comment closer.  GroupStart(text, i) is where the group of a match  *)
(* that starts at i starts, GroupEnds(text, b) where a group from b can end. *)
GroupStart(text, i) == SkipSpace(text, SkipSpace(text, i + 1) + 1)

GroupEnds(text, b) ==
    {e \in (b + 1)..Len(text) :
        text[e] = "}" /\ At(text, SkipSpace(text, e + 1)) = "-->"}

MetadataStarts(text) ==
    {i \in 1..Len(text) :
        /\ text[i] = "<!--"
        /\ At(text, SkipSpace(text, i + 1)) = "operit-skill-json:"
        /\ At(text, GroupStart(text, i)) = "{"
        /\ GroupEnds(text, GroupStart(text, i)) # {}}

(* the leftmost match, with the shortest group (.*? is not greedy) *)
MetadataGroup(text) ==
    LET starts == MetadataStarts(text)
        i == CHOOSE x \in starts : \A y \in starts : x <= y
        ends == GroupEnds(text, GroupStart(text, i))
    IN IF starts = {} THEN <<>>
       ELSE SubSeq(text, GroupStart(text, i), CHOOSE e \in ends : \A f \in ends : e <= f)

NotJson == [ok |-> FALSE, val |-> <<>>, next |-> 0]

RECURSIVE ReadString(_, _, _)
(* json.loads on a string literal: i is the place after the opening quote *)
ReadString(text, i, acc) ==
    IF i > Len(text) THEN NotJson
    ELSE IF text[i] = Quote THEN [ok |-> TRUE, val |-> acc, next |-> i + 1]
    ELSE IF text[i] = Backslash
         THEN IF i + 1 <= Len(text) /\ text[i + 1] \in {Quote, Backslash}
              THEN ReadString(text, i + 2, Append(acc, text[i + 1]))
              ELSE NotJson
    ELSE IF text[i] = "\n" THEN NotJson
    ELSE ReadString(text, i + 1, Append(acc, text[i]))

RECURSIVE ReadMembers(_, _, _)
(* json.loads on the members of an object whose values are strings: i is   *)
(* the place of the next key; the result is the list of <<key, value>>      *)
ReadMembers(text, i, acc) ==
    IF i > Len(text) \/ text[i] # Quote THEN NotJson
    ELSE LET key == ReadString(text, i + 1, <<>>)
         IN IF ~key.ok \/ key.next + 1 > Len(text) \/ text[key.next] # ":"
               \/ text[key.next + 1] # Quote
            THEN NotJson
            ELSE LET value == ReadString(text, key.next + 2, <<>>)
                 IN IF ~value.ok \/ value.next > Len(text) THEN NotJson
                    ELSE IF text[value.next] = "}"
                    THEN IF value.next = Len(text)
                         THEN [ok |-> TRUE, val |-> Append(acc, <<key.val, value.val>>),
                               next |-> value.next + 1]
                         ELSE NotJson
                    ELSE IF text[value.next] = ","
                    THEN ReadMembers(text, value.next + 1,
                                     Append(acc, <<key.val, value.val>>))
                    ELSE NotJson

(* lines 293-297: json.loads(raw), "" when it raises *)
LoadObject(raw) ==
    IF Len(raw) < 2 \/ raw[1] # "{" THEN NotJson
    ELSE IF raw = <<"{", "}">> THEN [ok |-> TRUE, val |-> <<>>, next |-> 3]
    ELSE ReadMembers(raw, 2, <<>>)

(* dict.get(key), None as <<>>: of equal keys the last one counts *)
GetMember(members, key) ==
    LET at == {i \in 1..Len(members) : members[i][1] = key}
    IN IF at = {} THEN <<>> ELSE members[CHOOSE i \in at : \A j \in at : j <= i][2]

(* str.strip() *)
StripText(str) ==
    IF \A i \in 1..Len(str) : IsSpace(str[i]) THEN <<>>
    ELSE SubSeq(str,
                CHOOSE a \in 1..Len(str) : ~IsSpace(str[a]) /\ \A i \in 1..(a - 1) : IsSpace(str[i]),
                CHOOSE b \in 1..Len(str) : ~IsSpace(str[b]) /\ \A i \in (b + 1)..Len(str) : IsSpace(str[i]))

(* _extract_skill_metadata_repo_url, lines 288-302 *)
ExtractSkillMetadataRepoUrl(text) ==
    LET raw == MetadataGroup(text)
        meta == LoadObject(raw)
    IN IF text = <<>> \/ raw = <<>> \/ ~meta.ok THEN <<>>
       ELSE StripText(IF GetMember(meta.val, <<"repositoryUrl">>) # <<>>
                      THEN GetMember(meta.val, <<"repositoryUrl">>)
                      ELSE GetMember(meta.val, <<"repoUrl">>))

(* the builder, then the parser on what it built *)
BodyBuild ==
    /\ prog = "body"
    /\ pc = "build"
    /\ issue_body' = BuildOperitIssueBody(build_args.description, build_args.repository_url,
                                          build_args.version)
    /\ pc' = "built"
    /\ UNCHANGED <<prog, build_args, extracted, httpVars, pageVars, pickVars, mainVars>>

BodyExtract ==
    /\ prog = "body"
    /\ pc = "built"
    /\ extracted' = ExtractSkillMetadataRepoUrl(issue_body)
    /\ pc' = "extracted"
    /\ UNCHANGED <<prog, build_args, issue_body, httpVars, pageVars, pickVars, mainVars>>

(* SpecBody: every repository URL of up to MaxText tokens, three versions,  *)
(* two descriptions.                                                        *)
TextTokens == {"u", " ", "}", "-->", Quote}
Texts == UNION {[1..n -> TextTokens] : n \in 0..MaxText}
Versions == {<<"v", "1">>, <<"}", "-->">>, <<"v", Backslash>>}
Descriptions ==
    {<<"u", " ", "u">>,
     <<"<!--", "operit-skill-json:", "{", Quote, "repositoryUrl", Quote, ":", Quote, "u", Quote,
       "}", "-->">>}

InitBody ==
    /\ prog = "body"
    /\ pc = "build"
    /\ build_args \in [description : Descriptions, repository_url : Texts, version : Versions]
    /\ issue_body = <<>>
    /\ extracted = <<>>
    /\ caller = "none"
    /\ retries = DefaultRetries
    /\ attempt = 0
    /\ slept = <<>>
    /\ hlog = <<>>
    /\ lastResp = NoResponse
    /\ hret = Pending
    /\ pages = <<>>
    /\ url = <<>>
    /\ out = <<>>
    /\ reqlog = <<>>
    /\ listing = <<>>
    /\ picked = <<>>
    /\ MainIdle

NextBody == BodyBuild \/ BodyExtract

SpecBody == InitBody /\ [][NextBody]_vars

(* C11: for every description, repository URL and version, parsing the     *)
(* built body gives back the repository URL that was passed in.            *)
C11_RoundTrip ==
    (prog = "body" /\ pc = "extracted") => extracted = build_args.repository_url

----------------------------------------------------------------------------
(* the names of a list of items, in order *)
NamesOf(xs) == [i \in 1..Len(xs) |-> xs[i].name]

SortedByName(xs) ==
    \A i \in 1..(Len(xs) - 1) : xs[i].name = xs[i + 1].name \/ StrLess(xs[i].name, xs[i + 1].name)

(* C12: in dry-run mode no creation request is ever prepared or sent; with *)
(* --limit L > 0 the selected items are the first min(L, n) of the         *)
(* name-sorted discovered items; in dry-run mode the step that leaves an   *)
(* item prints the planned-creation line of that item exactly when it      *)
(* counts it as created; and for two source directories with --limit 1 a   *)
(* run whose summarization succeeds ends with one planned line, for the    *)
(* first name, and exit status 0.                                          *)
C12_DryRunLimit ==
    /\ []((prog = "import" /\ cfg.dry_run) =>
            (caller \notin {"create", "fallback"} /\ ~cur.posted /\ cur.createCalls = 0))
    /\ []((prog = "import" /\ cfg.limit > 0 /\ cfg.only_skill = <<>> /\ idx >= 1) =>
            /\ SortedByName(discovered)
            /\ skills = SubSeq(discovered, 1,
                               IF cfg.limit < Len(discovered) THEN cfg.limit
                               ELSE Len(discovered)))
    /\ [][(prog = "import" /\ cfg.dry_run /\ idx >= 1) =>
            /\ created' \in {created, created + 1}
            /\ (created' = created + 1) <=>
                  (idx' = idx + 1 /\ pc = "ai"
                   /\ lastPrint' = Line("dry-run", skills[idx].name, ""))
            /\ (idx' = idx + 1 /\ created' = created) => lastPrint'.kind # "dry-run"]_vars
    /\ []((prog = "import" /\ cfg.dry_run /\ cfg.limit = 1 /\ ~cfg.skip_existing
           /\ Len(discovered) = 2 /\ pc = "done" /\ failed = 0) =>
            (created = 1 /\ skills = <<discovered[1]>> /\ exitCode = 0))

(* the claim's example: two source directories, dry-run, --limit 1 *)
C12_Witness ==
    /\ prog = "import"
    /\ cfg.dry_run
    /\ cfg.limit = 1
    /\ NamesOf(discovered) = <<N_a, N_b>>
    /\ NamesOf(skills) = <<N_a>>
    /\ pc = "done"
    /\ created = 1 /\ skipped = 0 /\ failed = 0
    /\ exitCode = 0

----------------------------------------------------------------------------
(* the run is over: main returned, or an exception left it *)
RunOver == pc \in {"exit", "done", "raised"}

(* what the command line and the environment lack *)
ConfigError ==
    \/ ~cfg.ai_ok
    \/ ~cfg.token_ok /\ ~cfg.dry_run
    \/ ~cfg.target_ok
    \/ ~cfg.source_ok

(* C13: a missing summarization endpoint or key, a missing token outside   *)
(* dry-run, a source or target repository that is not owner/name, or an    *)
(* --only-skill name that matches no discovered item ends the run with     *)
(* exit code 2, and no creation request has been sent.                     *)
C13_ConfigErrorsExit2 ==
    prog = "import" =>
        /\ ConfigError =>
              /\ idx = 0 /\ ~cur.posted /\ caller \notin {"create", "fallback"}
              /\ RunOver => exitCode = 2
        /\ (cfg.only_skill # <<>> /\ idx >= 1) =>
              (skills # <<>> /\ \A i \in 1..Len(skills) : skills[i].name = cfg.only_skill)
        /\ (cfg.only_skill # <<>> /\ pc = "exit") =>
              (exitCode = 2 /\ idx = 0 /\ ~cur.posted)

----------------------------------------------------------------------------
(* the directory a path lies in (<<>> is the top of the repository) and    *)
(* the name of its file                                                    *)
LastSlash(p) ==
    LET at == {i \in 1..Len(p) : p[i] = Slash}
    IN IF at = {} THEN 0 ELSE CHOOSE i \in at : \A j \in at : j <= i
DirOf(p) == SubSeq(p, 1, LastSlash(p) - 1)
FileOf(p) == SubSeq(p, LastSlash(p) + 1, Len(p))

AtOrBelow(dir, root) ==
    root = <<>> \/ dir = root \/ StartsWith(dir, root \o <<Slash>>)

(* the directories of the tree listing, at or below the configured root,   *)
(* that directly contain a file named SKILL.md                             *)
MarkedDirs ==
    {DirOf(tree[i]) : i \in {j \in 1..Len(tree) :
        FileOf(tree[j]) = N_SKILL_md /\ AtOrBelow(DirOf(tree[j]), Root)}}

(* discovery has returned to main *)
DiscoveryDone == prog = "import" /\ (idx >= 1 \/ discovered # <<>>)

OnePerDir(dirs) ==
    /\ Elements([i \in 1..Len(discovered) |-> discovered[i].path]) = dirs
    /\ Len(discovered) = Cardinality(dirs)
    /\ \A i \in 1..Len(discovered) :
          discovered[i].name = FileOf(discovered[i].path)

(* C14 as stated: both strategies return the items sorted by name, and the *)
(* recursive one returns exactly one item for every directory at or below  *)
(* the root that directly contains SKILL.md, the top directory included.   *)
C14_EveryMarkedDir ==
    DiscoveryDone =>
        /\ SortedByName(discovered)
        /\ cfg.recursive => OnePerDir(MarkedDirs)

(* C14: both strategies return the items sorted by name, and the recursive *)
(* one returns exactly one item for every directory other than the top of  *)
(* the repository that lies at or below the root and directly contains     *)
(* SKILL.md, and no other item.                                            *)
C14_EveryMarkedDirBelowTop ==
    DiscoveryDone =>
        /\ SortedByName(discovered)
        /\ cfg.recursive => OnePerDir(MarkedDirs \ {<<>>})

C14_Witness ==
    /\ DiscoveryDone
    /\ cfg.recursive
    /\ Root = <<>>
    /\ N_SKILL_md \in Elements(tree)
    /\ NamesOf(discovered) = <<N_a, N_b>>
    /\ discovered[1].path = JoinPath(<<N_skills, N_a>>)
    /\ discovered[2].path = JoinPath(<<N_other, N_b>>)

----------------------------------------------------------------------------
(* the tree request of recursive discovery returned a listing marked       *)
(* truncated, and discovery hands it to main in this step                  *)
TruncatedListingReturned ==
    /\ prog = "import"
    /\ caller = "tree"
    /\ hret.kind = "ok"
    /\ hret.data.type = "dict"
    /\ hret.data.items.truncated
    /\ caller' # "tree"

(* C15: in recursive discovery, whenever the tree response is marked       *)
(* truncated, the run prints the results-truncated warning.                *)
C15_TruncatedWarns == [][TruncatedListingReturned => warned']_vars

----------------------------------------------------------------------------
(* this step of _http_json receives a 403 whose body holds the             *)
(* permission-denied text                                                  *)
PermissionDeniedAnswered ==
    /\ prog = "http"
    /\ Len(hlog') = Len(hlog) + 1
    /\ lastResp'.status = 403
    /\ MarkPAT \in lastResp'.body.marks

(* C16: a 403 whose body contains "Resource not accessible by personal     *)
(* access token" is not retried: the call neither sleeps nor stays         *)
(* pending for a further request, and raises the error of every HTTP       *)
(* failure with status 403, the body and the troubleshooting hint.         *)
C16_PermissionDeniedNotRetried ==
    [][PermissionDeniedAnswered =>
          /\ slept' = slept
          /\ hret'.kind = "error"
          /\ hret'.exc = "RuntimeError:GitHub API error"
          /\ hret'.code = 403
          /\ hret'.body = lastResp'.body
          /\ hret'.hint]_vars

----------------------------------------------------------------------------
(* this step of the lister's _iter_issues got a transient failure (429, a  *)
(* server error or no answer at all) to a page request                     *)
ListerTransientFailure ==
    /\ prog = "list"
    /\ Len(reqlog') = Len(reqlog) + 1
    /\ lastResp'.status \in TransientStatuses \cup {StatusNetwork}

(* C17: a retryable status or a network failure on one page request of     *)
(* list_issues.py does not end the run: the lister goes on to request the  *)
(* same page again.                                                        *)
C17_ListerRetries ==
    [][ListerTransientFailure => (pc' = "list_loop" /\ url' = url)]_vars

----------------------------------------------------------------------------
(* SpecRerun: two runs of the importer over one source item whose path is  *)
(* a text of up to MaxText tokens.  The first run creates the item's       *)
(* issue; the second run, with --skip-existing, finds that issue in the    *)
(* listing of the target repository.                                       *)

RECURSIVE LStripSlashText(_)
(* skill.path.lstrip("/") on a text *)
LStripSlashText(text) ==
    IF text # <<>> /\ Head(text) = "/" THEN LStripSlashText(Tail(text)) ELSE text

(* line 752 on a text: repo_url *)
RepoUrlText(path) == <<GithubTreeBase>> \o LStripSlashText(path)

PathTexts == (Texts \ {<<>>}) \cup {<<"/", "u">>}

InitRerun ==
    /\ prog = "rerun"
    /\ pc = "first_run"
    /\ build_args \in [description : Descriptions, repository_url : {<<>>}, version : Versions]
    /\ skills \in {<<SourceSkill(path, path)>> : path \in PathTexts}
    /\ discovered = skills
    /\ cfg = [NoCfg EXCEPT !.skip_existing = TRUE]
    /\ idx = 1
    /\ issue_body = <<>>
    /\ extracted = <<>>
    /\ caller = "none"
    /\ retries = DefaultRetries
    /\ attempt = 0
    /\ slept = <<>>
    /\ hlog = <<>>
    /\ lastResp = NoResponse
    /\ hret = Pending
    /\ pages = <<>>
    /\ url = <<>>
    /\ out = <<>>
    /\ reqlog = <<>>
    /\ listing = <<>>
    /\ picked = <<>>
    /\ tree = <<>>
    /\ existing = {}
    /\ created = 0
    /\ skipped = 0
    /\ failed = 0
    /\ exitCode = -1
    /\ dupsReported = <<>>
    /\ warned = FALSE
    /\ cur = FreshItem
    /\ lastPrint = NoPrint

(* the first run, lines 752, 791 and 801-826: the item's issue is created  *)
(* with the body built for its URL, and the run ends                       *)
RerunCreate ==
    /\ prog = "rerun"
    /\ pc = "first_run"
    /\ build_args' = [build_args EXCEPT !.repository_url = RepoUrlText(skills[idx].path)]
    /\ issue_body' = BuildOperitIssueBody(build_args.description,
                                          RepoUrlText(skills[idx].path), build_args.version)
    /\ pc' = "second_run"
    /\ UNCHANGED <<prog, extracted, httpVars, pageVars, pickVars, mainVars>>

(* the second run, lines 676-690: the listing returns the issue *)
RerunPrefetch ==
    /\ prog = "rerun"
    /\ pc = "second_run"
    /\ extracted' = ExtractSkillMetadataRepoUrl(issue_body)
    /\ existing' = IF ExtractSkillMetadataRepoUrl(issue_body) # <<>>
                   THEN {ExtractSkillMetadataRepoUrl(issue_body)} ELSE {}
    /\ pc' = "loop"
    /\ UNCHANGED <<prog, build_args, issue_body, httpVars, pageVars, pickVars, cfg, tree,
                   discovered, skills, idx, created, skipped, failed, exitCode, dupsReported,
                   warned, cur, lastPrint>>

(* the second run, lines 749-833: the item is skipped, or processed again  *)
RerunItem(reply) ==
    /\ prog = "rerun"
    /\ pc = "loop"
    /\ IF cfg.skip_existing /\ RepoUrlText(skills[idx].path) \in existing
       THEN /\ skipped' = skipped + 1
            /\ lastPrint' = Line("skip", skills[idx].name, "")
            /\ UNCHANGED <<created, failed, cur>>
       ELSE IF reply = "text"
       THEN /\ cur' = [cur EXCEPT !.summarized = TRUE, !.createCalls = 1, !.posted = TRUE]
            /\ created' = created + 1
            /\ lastPrint' = Line("ok", skills[idx].name, "")
            /\ UNCHANGED <<skipped, failed>>
       ELSE /\ failed' = failed + 1
            /\ lastPrint' = Line("fail", skills[idx].name, "AI request failed")
            /\ UNCHANGED <<created, skipped, cur>>
    /\ pc' = "done"
    /\ UNCHANGED <<prog, bodyVars, httpVars, pageVars, pickVars, cfg, tree, discovered, skills,
                   existing, idx, exitCode, dupsReported, warned>>

RerunSecondItem == \E reply \in {"text", "error"} : RerunItem(reply)

NextRerun == RerunCreate \/ RerunPrefetch \/ RerunSecondItem

SpecRerun == InitRerun /\ [][NextRerun]_vars

(* C18: a second run with --skip-existing over the same source sends no    *)
(* creation request for an item whose issue the first run created and the  *)
(* listing returns, and counts the item as skipped.                        *)
C18_SecondRunSkips ==
    (prog = "rerun" /\ pc = "done") =>
        /\ skipped = 1
        /\ created = 0
        /\ failed = 0
        /\ ~cur.posted

----------------------------------------------------------------------------
(* SpecCreate: the creation of the issue of one item (the call of line 802 *)
(* and, after it, the call of line 815) against a target repository that   *)
(* answers each request in any way, and that may have made the issue when  *)
(* it answers with a server error or not at all.                           *)
InitCreate ==
    /\ prog = "create"
    /\ pc = "create"
    /\ caller = "create"
    /\ retries = DefaultRetries
    /\ attempt = 0
    /\ slept = <<>>
    /\ hlog = <<>>
    /\ lastResp = NoResponse
    /\ hret = Pending
    /\ pages = <<>>
    /\ url = <<>>
    /\ out = <<>>
    /\ reqlog = <<>>
    /\ listing = <<>>
    /\ picked = <<>>
    /\ BodyIdle
    /\ cfg = NoCfg
    /\ tree = <<>>
    /\ skills \in {<<SourceSkill(N_a, JoinPath(<<N_skills, N_a>>))>>,
                   <<SourceSkill(N_a, JoinPath(<<N_skills, N_a>>)),
                     SourceSkill(N_b, JoinPath(<<N_skills, N_b>>))>>}
    /\ discovered = skills
    /\ existing = {}
    /\ idx = 1
    /\ created = 0
    /\ skipped = 0
    /\ failed = 0
    /\ exitCode = -1
    /\ dupsReported = <<>>
    /\ warned = FALSE
    /\ cur = [FreshItem EXCEPT !.fetched = TRUE, !.summarized = TRUE, !.createCalls = 1]
    /\ lastPrint = NoPrint

CreatePost ==
    /\ prog = "create"
    /\ \E resp \in PostResponses \cup {NoResponse} :
          \E made \in ServerMade(resp) : MainPost(resp, made)
CreateAfterCreate == prog = "create" /\ MainAfterCreate
CreateAfterFallback == prog = "create" /\ MainAfterFallback

NextCreate == CreatePost \/ CreateAfterCreate \/ CreateAfterFallback

SpecCreate == InitCreate /\ [][NextCreate]_vars

(* C19: within one run the target repository makes at most one issue for   *)
(* each source item, whatever the server answers to the creation requests  *)
(* (the retries of _http_json and the call without labels included).       *)
C19_AtMostOneIssuePerItem ==
    prog = "create" => cur.made <= 1

====
